---- MODULE Spec2Model ----
(***************************************************************************)
(* Model of FinancialAnalyzer (src/financial_analyzer.py): six static      *)
(* metric functions over numeric time series; and of the tool              *)
(* profit_quality_analysis (src/tools/profit_quality.py), which validates  *)
(* a symbol, requests the company's yearly figures, falls back to a mock   *)
(* record when the request fails, runs the six functions and returns a     *)
(* report or an error string.                                              *)
(*                                                                         *)
(* Spec explores the calls of the six functions on small series; SpecTool  *)
(* explores one invocation of the tool, in three steps (validate, fetch,   *)
(* analyze), over the answers the API can give.                            *)
(*                                                                         *)
(* Numbers.  A Python number is modelled by the exact rational it denotes, *)
(* kept as a normalised pair <<n, d>> with d > 0 and gcd(n, d) = 1, so     *)
(* that equality of model values is equality of numbers (0, 0.0 and -0.0   *)
(* are all <<0, 1>>).  round(x, k) is Python's round-half-to-even at k     *)
(* decimals, applied to that exact value; statistics.mean and              *)
(* statistics.stdev are exact over their data, as in the library, and the  *)
(* square root is taken at the point where it is rounded.                  *)
(*                                                                         *)
(* The inputs explored are small integers, eighths and the mock record.    *)
(* On them the float computation of the source and the exact one agree:    *)
(* every value tested against zero is exact, and every value that lies     *)
(* half-way between two roundings is a binary fraction.  Inputs whose      *)
(* float quotients are inexact where the source tests them against zero    *)
(* (a mean of thirds, say) are outside the model.                          *)
(*                                                                         *)
(* Python values.  None is <<>>; a string that sits where None may also    *)
(* sit is Str(s) = <<s>>.  A call either returns or raises: its outcome is *)
(* Return(v) or Raise(exception name).                                     *)
(***************************************************************************)
EXTENDS Integers, Sequences, FiniteSets, TLC

VARIABLES
    metrics,   \* the Analyzer functions the caller invokes on args
    args,      \* the caller's argument objects (lists and scalars), by parameter name
    fn,        \* the function called last, "none" before the first call
    ret,       \* outcome of the last call
    seen,      \* outcome of the latest call of each function on args
    tool       \* the invocation of profit_quality_analysis: its position, its
               \* arguments, the API it meets, the record fetched, what it returns

vars == <<metrics, args, fn, ret, seen, tool>>

---------------------------------------------------------------------------
(* Bounds of the explored inputs *)

MaxLen == 2       \* longest series drawn from Vals
MaxEighths == 2   \* scalars are drawn from -MaxEighths/8 .. MaxEighths/8
PureLen == 2      \* longest series of the repeated-call specification
MaxItems == 2     \* most yearly records in an API payload

---------------------------------------------------------------------------
(* Python values *)

None == <<>>
Str(s) == <<s>>
Return(v) == [raised |-> "", result |-> v]
Raise(e) == [raised |-> e, result |-> None]

---------------------------------------------------------------------------
(* Exact rational arithmetic.  A rational is <<n, d>> in lowest terms, d > 0; *)
(* sums and products with 0 are given at once.                                *)

Abs(i) == IF i < 0 THEN -i ELSE i

RECURSIVE GCD(_, _)
GCD(a, b) == IF b = 0 THEN a ELSE GCD(b, a % b)

Rat(n, d) ==
    IF n = 0 THEN <<0, 1>>
    ELSE LET g == GCD(Abs(n), Abs(d))
             s == IF d < 0 THEN -1 ELSE 1
         IN  <<(s * n) \div g, (s * d) \div g>>

Num(i) == <<i, 1>>
Zero == <<0, 1>>

RAdd(x, y) ==
    IF y[1] = 0 THEN x
    ELSE IF x[1] = 0 THEN y
    ELSE LET l == (x[2] \div GCD(x[2], y[2])) * y[2]
         IN  Rat(x[1] * (l \div x[2]) + y[1] * (l \div y[2]), l)
RNeg(x) == <<-x[1], x[2]>>
RSub(x, y) == RAdd(x, RNeg(y))
RMul(x, y) ==
    IF x[1] = 0 \/ y[1] = 0 THEN Zero
    ELSE LET a == Rat(x[1], y[2])
             b == Rat(y[1], x[2])
         IN  <<a[1] * b[1], a[2] * b[2]>>
RDiv(x, y) == RMul(x, Rat(y[2], y[1]))
RAbs(x) == <<Abs(x[1]), x[2]>>
RLess(x, y) == RSub(x, y)[1] < 0

RECURSIVE Pow10(_)
Pow10(k) == IF k = 0 THEN 1 ELSE 10 * Pow10(k - 1)

\* The integer nearest to the non-negative rational n/d, ties to the even one.
NearestEven(n, d) ==
    LET q == n \div d
        r == n % d
    IN  IF 2 * r < d THEN q
        ELSE IF 2 * r > d THEN q + 1
        ELSE IF q % 2 = 0 THEN q ELSE q + 1

\* round(x, ndigits)
round(x, ndigits) ==
    LET p == Pow10(ndigits)
        a == Abs(x[1])
        whole == a \div x[2]
        frac == NearestEven((a % x[2]) * p, x[2])
        m == whole * p + frac
    IN  Rat(IF x[1] < 0 THEN -m ELSE m, p)

---------------------------------------------------------------------------
(* Builtins over lists *)

len(list) == Len(list)
min(a, b) == IF a < b THEN a ELSE b

RECURSIVE sum(_)
sum(list) == IF list = <<>> THEN Zero ELSE RAdd(list[1], sum(Tail(list)))

\* zip(a, b): positional pairs up to the shorter list
zip(a, b) == [i \in 1..min(Len(a), Len(b)) |-> <<a[i], b[i]>>]

\* statistics.mean(data), for non-empty data (it raises StatisticsError on empty data)
mean(data) == RDiv(sum(data), Num(Len(data)))

---------------------------------------------------------------------------
(* Square roots.  A Surd <<c, v>> is the real number c * sqrt(v), v >= 0.  *)

ZeroSurd == <<Zero, Zero>>

\* Base-100 digits of the natural number i, most significant first.
RECURSIVE Digits100(_)
Digits100(i) == IF i < 100 THEN <<i>> ELSE Append(Digits100(i \div 100), i % 100)

\* The first k base-100 digits of the fraction r/d (0 <= r < d), then the remainder.
RECURSIVE FracDigits100(_, _, _)
FracDigits100(r, d, k) ==
    IF k = 0 THEN <<<<>>, r>>
    ELSE LET t1 == (r * 10) \div d
             r1 == (r * 10) % d
             t2 == (r1 * 10) \div d
             r2 == (r1 * 10) % d
             rest == FracDigits100(r2, d, k - 1)
         IN  <<(<<t1 * 10 + t2>>) \o rest[1], rest[2]>>

\* The largest digit x <= y with (20 * root + x) * x <= cur.
RECURSIVE SqrtDigit(_, _, _)
SqrtDigit(root, cur, y) ==
    IF (20 * root + y) * y <= cur THEN y ELSE SqrtDigit(root, cur, y - 1)

\* Long-hand square root: <<root, remainder>> of the number whose base-100 digits,
\* after those already consumed into <<root, rem>>, are ds.
RECURSIVE LongSqrt(_, _, _)
LongSqrt(ds, root, rem) ==
    IF ds = <<>> THEN <<root, rem>>
    ELSE LET cur == rem * 100 + ds[1]
             x == SqrtDigit(root, cur, IF root = 0 THEN 9 ELSE min(9, cur \div (20 * root)))
         IN  LongSqrt(Tail(ds), 10 * root + x, cur - (20 * root + x) * x)

\* round(c * sqrt(v), ndigits): with y = 4 * c^2 * v * 100^ndigits and s = floor(sqrt(y)),
\* the nearest integer to sqrt(y)/2 is (s + 1) \div 2, a tie exactly when y = s^2, s odd.
RoundSurd(surd, ndigits) ==
    LET c == surd[1]
        y == RMul(Num(4), RMul(RMul(c, c), surd[2]))
        fd == FracDigits100(y[1] % y[2], y[2], ndigits)
        sr == LongSqrt(Digits100(y[1] \div y[2]) \o fd[1], 0, 0)
        s == sr[1]
        exact == sr[2] = 0 /\ fd[2] = 0
        up == (s + 1) \div 2
        m == IF exact /\ s % 2 = 1 /\ up % 2 = 1 THEN up - 1 ELSE up
    IN  Rat(IF c[1] < 0 THEN -m ELSE m, Pow10(ndigits))

\* statistics.stdev(data), for at least two data points: sqrt of the sample variance
stdev(data) ==
    LET m == mean(data)
        Sq(x) == RMul(RSub(x, m), RSub(x, m))
    IN  <<Num(1), RDiv(sum([i \in 1..Len(data) |-> Sq(data[i])]), Num(Len(data) - 1))>>

\* surd * x and surd / x for a rational x
SurdMul(surd, x) == <<RMul(surd[1], x), surd[2]>>
SurdDiv(surd, x) == <<RDiv(surd[1], x), surd[2]>>

---------------------------------------------------------------------------
(* FinancialAnalyzer.cumulative_pat_vs_cfo *)

MinYears == 10

\* Mutant: the sums run over the first min(len) years only.
cumulative_pat_vs_cfo_first_years(pat_list, cfo_list, rolling_window) ==
    IF len(pat_list) < 1 \/ len(cfo_list) < 1
    THEN Return([value |-> Zero, years |-> 0, warning |-> Str("Insufficient data")])
    ELSE LET years_available == min(len(pat_list), len(cfo_list))
             cumulative_pat == sum(SubSeq(pat_list, 1, years_available))
             cumulative_cfo == sum(SubSeq(cfo_list, 1, years_available))
             ratio == IF cumulative_pat # Zero
                      THEN RDiv(cumulative_cfo, cumulative_pat)
                      ELSE Zero
         IN  Return([value |-> round(ratio, 3),
                     years |-> years_available,
                     warning |-> IF years_available < MinYears
                                 THEN Str("Only 3 years available")
                                 ELSE None])

\* Mutant: the ratio is PAT / CFO.
cumulative_pat_vs_cfo_inverted(pat_list, cfo_list, rolling_window) ==
    IF len(pat_list) < 1 \/ len(cfo_list) < 1
    THEN Return([value |-> Zero, years |-> 0, warning |-> Str("Insufficient data")])
    ELSE LET years_available == min(len(pat_list), len(cfo_list))
             cumulative_pat == sum(pat_list)
             cumulative_cfo == sum(cfo_list)
             ratio == IF cumulative_cfo # Zero
                      THEN RDiv(cumulative_pat, cumulative_cfo)
                      ELSE Zero
         IN  Return([value |-> round(ratio, 3),
                     years |-> years_available,
                     warning |-> IF years_available < MinYears
                                 THEN Str("Only 3 years available")
                                 ELSE None])

\* Mutant: the warning is also given at exactly ten years.
cumulative_pat_vs_cfo_warn_at_ten(pat_list, cfo_list, rolling_window) ==
    IF len(pat_list) < 1 \/ len(cfo_list) < 1
    THEN Return([value |-> Zero, years |-> 0, warning |-> Str("Insufficient data")])
    ELSE LET years_available == min(len(pat_list), len(cfo_list))
             cumulative_pat == sum(pat_list)
             cumulative_cfo == sum(cfo_list)
             ratio == IF cumulative_pat # Zero
                      THEN RDiv(cumulative_cfo, cumulative_pat)
                      ELSE Zero
         IN  Return([value |-> round(ratio, 3),
                     years |-> years_available,
                     warning |-> IF years_available <= MinYears
                                 THEN Str("Only 3 years available")
                                 ELSE None])

cumulative_pat_vs_cfo(pat_list, cfo_list, rolling_window) ==
    IF len(pat_list) < 1 \/ len(cfo_list) < 1
    THEN Return([value |-> Zero, years |-> 0, warning |-> Str("Insufficient data")])
    ELSE LET years_available == min(len(pat_list), len(cfo_list))
             cumulative_pat == sum(pat_list)
             cumulative_cfo == sum(cfo_list)
             ratio == IF cumulative_pat # Zero
                      THEN RDiv(cumulative_cfo, cumulative_pat)
                      ELSE Zero
         IN  Return([value |-> round(ratio, 3),
                     years |-> years_available,
                     warning |-> IF years_available < MinYears
                                 THEN Str("Only 3 years available")
                                 ELSE None])

---------------------------------------------------------------------------
(* FinancialAnalyzer.cfo_ebitda_consistency *)

\* Mutant: the threshold is enforced, a ratio below it is reported as 0.
cfo_ebitda_consistency_enforcing(cfo_list, ebitda_list, threshold) ==
    IF len(cfo_list) < 1 \/ len(ebitda_list) < 1
    THEN Return([avg_cfo |-> Zero, avg_ebitda |-> Zero, ratio |-> Zero])
    ELSE LET avg_cfo == mean(cfo_list)
             avg_ebitda == mean(ebitda_list)
             ratio == IF avg_ebitda # Zero THEN RDiv(avg_cfo, avg_ebitda) ELSE Zero
         IN  Return([avg_cfo |-> round(avg_cfo, 2),
                     avg_ebitda |-> round(avg_ebitda, 2),
                     ratio |-> IF RLess(ratio, threshold) THEN Zero ELSE round(ratio, 3)])

cfo_ebitda_consistency(cfo_list, ebitda_list, threshold) ==
    IF len(cfo_list) < 1 \/ len(ebitda_list) < 1
    THEN Return([avg_cfo |-> Zero, avg_ebitda |-> Zero, ratio |-> Zero])
    ELSE LET avg_cfo == mean(cfo_list)
             avg_ebitda == mean(ebitda_list)
             ratio == IF avg_ebitda # Zero THEN RDiv(avg_cfo, avg_ebitda) ELSE Zero
         IN  Return([avg_cfo |-> round(avg_cfo, 2),
                     avg_ebitda |-> round(avg_ebitda, 2),
                     ratio |-> round(ratio, 3)])

---------------------------------------------------------------------------
(* FinancialAnalyzer.accrual_quality *)

\* Mutant: the accruals enter the ratio with their sign.
accrual_quality_signed(pat_list, cfo_list) ==
    IF len(pat_list) < 1 \/ len(cfo_list) < 1
    THEN Return([avg_pat |-> Zero, avg_cfo |-> Zero,
                 avg_accruals |-> Zero, accrual_ratio |-> Zero])
    ELSE LET avg_pat == mean(pat_list)
             avg_cfo == mean(cfo_list)
             Accrual(pair) == RSub(pair[1], pair[2])
             pairs == zip(pat_list, cfo_list)
             accruals == [i \in 1..Len(pairs) |-> Accrual(pairs[i])]
             avg_accruals == mean(accruals)
             Share(acc) == RDiv(acc, avg_pat)
             shares == IF avg_pat # Zero
                       THEN [i \in 1..Len(accruals) |-> Share(accruals[i])]
                       ELSE <<>>
         IN  IF shares = <<>>
             THEN Raise("StatisticsError")
             ELSE Return([avg_pat |-> round(avg_pat, 2),
                          avg_cfo |-> round(avg_cfo, 2),
                          avg_accruals |-> round(avg_accruals, 2),
                          accrual_ratio |-> round(mean(shares), 4)])

accrual_quality(pat_list, cfo_list) ==
    IF len(pat_list) < 1 \/ len(cfo_list) < 1
    THEN Return([avg_pat |-> Zero, avg_cfo |-> Zero,
                 avg_accruals |-> Zero, accrual_ratio |-> Zero])
    ELSE LET avg_pat == mean(pat_list)
             avg_cfo == mean(cfo_list)
             Accrual(pair) == RSub(pair[1], pair[2])
             pairs == zip(pat_list, cfo_list)
             accruals == [i \in 1..Len(pairs) |-> Accrual(pairs[i])]
             avg_accruals == mean(accruals)
             Share(acc) == RDiv(RAbs(acc), avg_pat)
             \* [abs(acc) / avg_pat for acc in accruals if avg_pat != 0]
             shares == IF avg_pat # Zero
                       THEN [i \in 1..Len(accruals) |-> Share(accruals[i])]
                       ELSE <<>>
         IN  IF shares = <<>>
             THEN Raise("StatisticsError")
             ELSE Return([avg_pat |-> round(avg_pat, 2),
                          avg_cfo |-> round(avg_cfo, 2),
                          avg_accruals |-> round(avg_accruals, 2),
                          accrual_ratio |-> round(mean(shares), 4)])

---------------------------------------------------------------------------
(* FinancialAnalyzer.depreciation_volatility *)

\* Mutant: the guard is sales > 0.
depreciation_ratio_positive_sales(pair) ==
    IF pair[2][1] > 0 THEN RMul(RDiv(pair[1], pair[2]), Num(100)) ELSE Zero

\* (dep / sales * 100) if sales != 0 else 0, for pair = <<dep, sales>>
depreciation_ratio(pair) ==
    IF pair[2] # Zero THEN RMul(RDiv(pair[1], pair[2]), Num(100)) ELSE Zero

depreciation_volatility(depreciation_list, sales_list) ==
    IF len(depreciation_list) < 2 \/ len(sales_list) < 2
    THEN Return(Zero)
    ELSE LET pairs == zip(depreciation_list, sales_list)
             depreciation_ratios ==
                 [i \in 1..Len(pairs) |-> depreciation_ratio(pairs[i])]
             avg_ratio == mean(depreciation_ratios)
             volatility == IF len(depreciation_ratios) > 1
                           THEN stdev(depreciation_ratios)
                           ELSE ZeroSurd
             cv == IF avg_ratio # Zero
                   THEN SurdMul(SurdDiv(volatility, avg_ratio), Num(100))
                   ELSE ZeroSurd
         IN  Return(RoundSurd(cv, 2))

---------------------------------------------------------------------------
(* FinancialAnalyzer.cash_earning_rate *)

\* Mutant: the test is "if not annual_earnings", which takes earnings of 0 for missing.
cash_earning_rate_falsy(cash_balance, risk_free_rate, annual_earnings) ==
    LET expected_annual_earnings == RDiv(RMul(cash_balance, risk_free_rate), Num(100))
    IN  IF annual_earnings = None \/ annual_earnings = Zero
        THEN Return([cash_balance |-> round(cash_balance, 2),
                     risk_free_rate |-> risk_free_rate,
                     expected_earnings |-> round(expected_annual_earnings, 2),
                     actual_earnings |-> None,
                     earning_rate |-> None,
                     warning |-> Str("No interest income data provided")])
        ELSE LET actual_earning_rate ==
                     IF cash_balance # Zero
                     THEN RMul(RDiv(annual_earnings, cash_balance), Num(100))
                     ELSE Zero
             IN  Return([cash_balance |-> round(cash_balance, 2),
                         risk_free_rate |-> risk_free_rate,
                         expected_earnings |-> round(expected_annual_earnings, 2),
                         actual_earnings |-> round(annual_earnings, 2),
                         earning_rate |-> round(actual_earning_rate, 3),
                         warning |-> None])

cash_earning_rate(cash_balance, risk_free_rate, annual_earnings) ==
    LET expected_annual_earnings == RDiv(RMul(cash_balance, risk_free_rate), Num(100))
    IN  IF annual_earnings = None
        THEN Return([cash_balance |-> round(cash_balance, 2),
                     risk_free_rate |-> risk_free_rate,
                     expected_earnings |-> round(expected_annual_earnings, 2),
                     actual_earnings |-> None,
                     earning_rate |-> None,
                     warning |-> Str("No interest income data provided")])
        ELSE LET actual_earning_rate ==
                     IF cash_balance # Zero
                     THEN RMul(RDiv(annual_earnings, cash_balance), Num(100))
                     ELSE Zero
             IN  Return([cash_balance |-> round(cash_balance, 2),
                         risk_free_rate |-> risk_free_rate,
                         expected_earnings |-> round(expected_annual_earnings, 2),
                         actual_earnings |-> round(annual_earnings, 2),
                         earning_rate |-> round(actual_earning_rate, 3),
                         warning |-> None])

---------------------------------------------------------------------------
(* FinancialAnalyzer.fcf_quality *)

\* Mutant: depreciation is added back, FCF = CFO + depreciation - Capex.
fcf_quality_adding_depreciation(cfo_list, depreciation_list, capex_list) ==
    IF len(cfo_list) < 2
    THEN Return([avg_fcf |-> Zero, volatility_cv |-> Zero, negative_years |-> 0,
                 total_years |-> 0, avg_cfo |-> Zero, avg_capex |-> Zero])
    ELSE LET Fcf(triple) == RSub(RAdd(triple[1][1], triple[1][2]), triple[2])
             triples == zip(zip(cfo_list, depreciation_list), capex_list)
             fcf_list == [i \in 1..Len(triples) |-> Fcf(triples[i])]
         IN  IF fcf_list = <<>> \/ capex_list = <<>>
             THEN Raise("StatisticsError")
             ELSE LET avg_fcf == mean(fcf_list)
                      avg_cfo == mean(cfo_list)
                      avg_capex == mean(capex_list)
                      fcf_volatility == IF len(fcf_list) > 1
                                        THEN stdev(fcf_list)
                                        ELSE ZeroSurd
                      cv == IF avg_fcf # Zero
                            THEN SurdMul(SurdDiv(fcf_volatility, avg_fcf), Num(100))
                            ELSE ZeroSurd
                      negative_years ==
                          Cardinality({i \in 1..Len(fcf_list) : RLess(fcf_list[i], Zero)})
                  IN  Return([avg_fcf |-> round(avg_fcf, 2),
                              volatility_cv |-> RoundSurd(cv, 2),
                              negative_years |-> negative_years,
                              total_years |-> len(fcf_list),
                              avg_cfo |-> round(avg_cfo, 2),
                              avg_capex |-> round(avg_capex, 2)])

\* Mutant: the difference is taken the other way round, FCF = Capex - CFO.
fcf_quality_capex_minus_cfo(cfo_list, depreciation_list, capex_list) ==
    IF len(cfo_list) < 2
    THEN Return([avg_fcf |-> Zero, volatility_cv |-> Zero, negative_years |-> 0,
                 total_years |-> 0, avg_cfo |-> Zero, avg_capex |-> Zero])
    ELSE LET Fcf(pair) == RSub(pair[2], pair[1])
             pairs == zip(cfo_list, capex_list)
             fcf_list == [i \in 1..Len(pairs) |-> Fcf(pairs[i])]
         IN  IF fcf_list = <<>> \/ capex_list = <<>>
             THEN Raise("StatisticsError")
             ELSE LET avg_fcf == mean(fcf_list)
                      avg_cfo == mean(cfo_list)
                      avg_capex == mean(capex_list)
                      fcf_volatility == IF len(fcf_list) > 1
                                        THEN stdev(fcf_list)
                                        ELSE ZeroSurd
                      cv == IF avg_fcf # Zero
                            THEN SurdMul(SurdDiv(fcf_volatility, avg_fcf), Num(100))
                            ELSE ZeroSurd
                      negative_years ==
                          Cardinality({i \in 1..Len(fcf_list) : RLess(fcf_list[i], Zero)})
                  IN  Return([avg_fcf |-> round(avg_fcf, 2),
                              volatility_cv |-> RoundSurd(cv, 2),
                              negative_years |-> negative_years,
                              total_years |-> len(fcf_list),
                              avg_cfo |-> round(avg_cfo, 2),
                              avg_capex |-> round(avg_capex, 2)])

\* Mutant: one year of cfo is taken to be enough.
fcf_quality_min_one_year(cfo_list, depreciation_list, capex_list) ==
    IF len(cfo_list) < 1
    THEN Return([avg_fcf |-> Zero, volatility_cv |-> Zero, negative_years |-> 0,
                 total_years |-> 0, avg_cfo |-> Zero, avg_capex |-> Zero])
    ELSE LET Fcf(pair) == RSub(pair[1], pair[2])
             pairs == zip(cfo_list, capex_list)
             fcf_list == [i \in 1..Len(pairs) |-> Fcf(pairs[i])]
         IN  IF fcf_list = <<>> \/ capex_list = <<>>
             THEN Raise("StatisticsError")
             ELSE LET avg_fcf == mean(fcf_list)
                      avg_cfo == mean(cfo_list)
                      avg_capex == mean(capex_list)
                      fcf_volatility == IF len(fcf_list) > 1
                                        THEN stdev(fcf_list)
                                        ELSE ZeroSurd
                      cv == IF avg_fcf # Zero
                            THEN SurdMul(SurdDiv(fcf_volatility, avg_fcf), Num(100))
                            ELSE ZeroSurd
                      negative_years ==
                          Cardinality({i \in 1..Len(fcf_list) : RLess(fcf_list[i], Zero)})
                  IN  Return([avg_fcf |-> round(avg_fcf, 2),
                              volatility_cv |-> RoundSurd(cv, 2),
                              negative_years |-> negative_years,
                              total_years |-> len(fcf_list),
                              avg_cfo |-> round(avg_cfo, 2),
                              avg_capex |-> round(avg_capex, 2)])

fcf_quality(cfo_list, depreciation_list, capex_list) ==
    IF len(cfo_list) < 2
    THEN Return([avg_fcf |-> Zero, volatility_cv |-> Zero, negative_years |-> 0,
                 total_years |-> 0, avg_cfo |-> Zero, avg_capex |-> Zero])
    ELSE LET Fcf(pair) == RSub(pair[1], pair[2])
             pairs == zip(cfo_list, capex_list)
             fcf_list == [i \in 1..Len(pairs) |-> Fcf(pairs[i])]
         IN  IF fcf_list = <<>> \/ capex_list = <<>>
             THEN Raise("StatisticsError")
             ELSE LET avg_fcf == mean(fcf_list)
                      avg_cfo == mean(cfo_list)
                      avg_capex == mean(capex_list)
                      fcf_volatility == IF len(fcf_list) > 1
                                        THEN stdev(fcf_list)
                                        ELSE ZeroSurd
                      cv == IF avg_fcf # Zero
                            THEN SurdMul(SurdDiv(fcf_volatility, avg_fcf), Num(100))
                            ELSE ZeroSurd
                      negative_years ==
                          Cardinality({i \in 1..Len(fcf_list) : RLess(fcf_list[i], Zero)})
                  IN  Return([avg_fcf |-> round(avg_fcf, 2),
                              volatility_cv |-> RoundSurd(cv, 2),
                              negative_years |-> negative_years,
                              total_years |-> len(fcf_list),
                              avg_cfo |-> round(avg_cfo, 2),
                              avg_capex |-> round(avg_capex, 2)])

---------------------------------------------------------------------------
(* The score and flag variants of the accrual and FCF analyses.  They are  *)
(* not in the source at hand; they are taken from the design text, which   *)
(* gives them as functions of the fields of the detailed results.          *)

\* ratio<0.05 -> 10, <0.10 -> 9, ..., <0.45 -> 2, else -> 1
accrual_score(accrual_ratio) ==
    IF RLess(accrual_ratio, Rat(5, 100)) THEN 10
    ELSE IF RLess(accrual_ratio, Rat(10, 100)) THEN 9
    ELSE IF RLess(accrual_ratio, Rat(15, 100)) THEN 8
    ELSE IF RLess(accrual_ratio, Rat(20, 100)) THEN 7
    ELSE IF RLess(accrual_ratio, Rat(25, 100)) THEN 6
    ELSE IF RLess(accrual_ratio, Rat(30, 100)) THEN 5
    ELSE IF RLess(accrual_ratio, Rat(35, 100)) THEN 4
    ELSE IF RLess(accrual_ratio, Rat(40, 100)) THEN 3
    ELSE IF RLess(accrual_ratio, Rat(45, 100)) THEN 2
    ELSE 1

\* "Yes" when negative_years / len(fcf) > 0.3, or volatility_cv > 50, or avg_fcf < 0,
\* for a result over at least one year.
lack_of_fcf_generation(fcf_result) ==
    IF \/ 10 * fcf_result.negative_years > 3 * fcf_result.total_years
       \/ RLess(Num(50), fcf_result.volatility_cv)
       \/ RLess(fcf_result.avg_fcf, Zero)
    THEN "Yes"
    ELSE "No"

---------------------------------------------------------------------------
(* The fixed fallback record of _generate_mock_data *)

Nums(ints) == [i \in 1..Len(ints) |-> Num(ints[i])]

MockPat == Nums(<<100, 110, 120, 115, 125, 130, 140, 135, 145, 150>>)
MockCfo == Nums(<<95, 105, 118, 112, 122, 128, 138, 133, 143, 148>>)
MockEbitda == Nums(<<150, 160, 170, 165, 175, 180, 190, 185, 195, 200>>)
MockDepreciation == Nums(<<20, 20, 21, 21, 22, 22, 23, 23, 24, 24>>)
MockSales == Nums(<<1000, 1050, 1100, 1080, 1150, 1200, 1250, 1220, 1300, 1350>>)
MockCapex == Nums(<<30, 32, 35, 33, 38, 40, 42, 41, 45, 48>>)

_generate_mock_data(company_id) ==
    [company_id |-> company_id,
     pat |-> MockPat,
     cfo |-> MockCfo,
     ebitda |-> MockEbitda,
     depreciation |-> MockDepreciation,
     sales |-> MockSales,
     capex |-> MockCapex,
     cash_balance |-> Num(500)]

---------------------------------------------------------------------------
(* Inputs *)

Functions == {"cumulative_pat_vs_cfo", "cfo_ebitda_consistency", "accrual_quality",
              "depreciation_volatility", "cash_earning_rate", "fcf_quality"}

Vals == {Num(i) : i \in -1..2}

RECURSIVE SeqsUpTo(_, _)
SeqsUpTo(S, n) ==
    IF n = 0 THEN {<<>>}
    ELSE LET shorter == SeqsUpTo(S, n - 1)
         IN  shorter \cup {Append(q, x) : q \in {r \in shorter : Len(r) = n - 1}, x \in S}

Series == SeqsUpTo(Vals, MaxLen)

Rep(x, n) == [i \in 1..n |-> x]

\* Series on both sides of the ten-year mark of cumulative_pat_vs_cfo
Long == {MockPat, MockCfo, Rep(Num(1), MinYears - 1), Rep(Num(0), MinYears + 1)}

\* <<pat, cfo>> with accrual ratios 0, 0.025, 0.05, ..., 0.5: one year in which cfo
\* exceeds a pat of 20 by k, one year in which they agree
Graded == {<<Nums(<<20, 20>>), Nums(<<20 + k, 20>>)>> : k \in 0..20}

Eighths == {Rat(n, 8) : n \in -MaxEighths..MaxEighths}
Rates == {Zero, Rat(1, 8), Rat(9, 2), Num(5)}
Thresholds == {Rat(7, 10), Rat(9, 10)}

\* Defaults of the optional parameters
DefaultRollingWindow == 3
DefaultThreshold == Rat(7, 10)

NoArgs == [pat_list |-> <<>>, cfo_list |-> <<>>, ebitda_list |-> <<>>,
           depreciation_list |-> <<>>, sales_list |-> <<>>, capex_list |-> <<>>,
           cash_balance |-> Zero, risk_free_rate |-> Zero, annual_earnings |-> None,
           threshold |-> DefaultThreshold, rolling_window |-> DefaultRollingWindow]

ArgsOf(f) ==
    CASE f = "cumulative_pat_vs_cfo" ->
            {[NoArgs EXCEPT !.pat_list = p, !.cfo_list = c] :
                p \in Series \cup Long, c \in Series \cup Long}
      [] f = "cfo_ebitda_consistency" ->
            {[NoArgs EXCEPT !.cfo_list = c, !.ebitda_list = e, !.threshold = t] :
                c \in Series, e \in Series, t \in Thresholds}
      [] f = "accrual_quality" ->
            {[NoArgs EXCEPT !.pat_list = p, !.cfo_list = c] :
                p \in Series \cup {MockPat}, c \in Series \cup {MockCfo}}
            \cup
            {[NoArgs EXCEPT !.pat_list = g[1], !.cfo_list = g[2]] : g \in Graded}
      [] f = "depreciation_volatility" ->
            {[NoArgs EXCEPT !.depreciation_list = d, !.sales_list = s] :
                d \in Series, s \in Series}
      [] f = "cash_earning_rate" ->
            {[NoArgs EXCEPT !.cash_balance = b, !.risk_free_rate = r,
                            !.annual_earnings = e] :
                b \in Eighths, r \in Rates, e \in {None} \cup Eighths}
            \cup
            {[NoArgs EXCEPT !.cash_balance = b, !.risk_free_rate = r,
                            !.annual_earnings = e] :
                b \in {Num(500), Num(1000)}, r \in Rates, e \in {None, Num(50)}}
      [] f = "fcf_quality" ->
            {[NoArgs EXCEPT !.cfo_list = c, !.capex_list = x,
                            !.depreciation_list = IF d THEN c ELSE <<>>] :
                c \in Series \cup {MockCfo}, x \in Series \cup {MockCapex},
                d \in BOOLEAN}

---------------------------------------------------------------------------
(* Calls.  No Analyzer function assigns to, or calls a mutating method of, *)
(* any of its list parameters, and the class holds no attribute: a call    *)
(* changes nothing but its own outcome.                                    *)

NotCalled == [raised |-> "not called", result |-> None]

Returned(f, outcome) ==
    /\ fn' = f
    /\ ret' = outcome
    /\ seen' = [seen EXCEPT ![f] = outcome]
    /\ UNCHANGED <<metrics, tool>>

\* Mutant: the call cuts pat_list, in place, to the years it reports.
Call_cumulative_pat_vs_cfo_truncating ==
    /\ "cumulative_pat_vs_cfo" \in metrics
    /\ Returned("cumulative_pat_vs_cfo",
                cumulative_pat_vs_cfo(args.pat_list, args.cfo_list, args.rolling_window))
    /\ args' = [args EXCEPT !.pat_list =
                   SubSeq(@, 1, min(len(args.pat_list), len(args.cfo_list)))]

Call_cumulative_pat_vs_cfo ==
    /\ "cumulative_pat_vs_cfo" \in metrics
    /\ Returned("cumulative_pat_vs_cfo",
                cumulative_pat_vs_cfo(args.pat_list, args.cfo_list, args.rolling_window))
    /\ args' = args

Call_cfo_ebitda_consistency ==
    /\ "cfo_ebitda_consistency" \in metrics
    /\ Returned("cfo_ebitda_consistency",
                cfo_ebitda_consistency(args.cfo_list, args.ebitda_list, args.threshold))
    /\ args' = args

Call_accrual_quality ==
    /\ "accrual_quality" \in metrics
    /\ Returned("accrual_quality", accrual_quality(args.pat_list, args.cfo_list))
    /\ args' = args

Call_depreciation_volatility ==
    /\ "depreciation_volatility" \in metrics
    /\ Returned("depreciation_volatility",
                depreciation_volatility(args.depreciation_list, args.sales_list))
    /\ args' = args

Call_cash_earning_rate ==
    /\ "cash_earning_rate" \in metrics
    /\ Returned("cash_earning_rate",
                cash_earning_rate(args.cash_balance, args.risk_free_rate,
                                  args.annual_earnings))
    /\ args' = args

Call_fcf_quality ==
    /\ "fcf_quality" \in metrics
    /\ Returned("fcf_quality",
                fcf_quality(args.cfo_list, args.depreciation_list, args.capex_list))
    /\ args' = args

---------------------------------------------------------------------------
(* profit_quality_analysis (src/tools/profit_quality.py)                   *)
(*                                                                         *)
(* A company_id is kept as <<stem, extension>>, the extension being the    *)
(* text from its last "." on.  A JSON object is a record over the keys it  *)
(* holds, so that a key that is absent differs from a key that is null     *)
(* (None); a JSON number is the rational it denotes and a JSON string is   *)
(* Str(s).  A string the tool returns is kept as its first words, its      *)
(* content and its last line.                                              *)

\* str.endswith, for a suffix that is an extension
endswith(company_id, suffix) == company_id[2] = suffix

\* dict.get(key, default)
get(dict, key, default) == IF key \in DOMAIN dict THEN dict[key] ELSE default

\* float(value): a number converts, None is a TypeError, text that is no number a
\* ValueError
float(value) ==
    IF value = None THEN Raise("TypeError")
    ELSE IF Len(value) = 2 THEN Return(value)
    ELSE Raise("ValueError")

\* format(x, ".2f") and format(x, ".3f"): the nearest decimal of that many places
format_f(x, places) == round(x, places)

\* the key of financial_data.sort: x.get("calendarYear", 0)
calendarYear(item) == get(item, "calendarYear", 0)

\* list.sort(key = calendarYear): ascending and stable
RECURSIVE sort_by_year(_)
sort_by_year(financial_data) ==
    IF financial_data = <<>> THEN <<>>
    ELSE LET n == Len(financial_data)
             item == financial_data[n]
             before == sort_by_year(SubSeq(financial_data, 1, n - 1))
             k == Cardinality({i \in 1..(n - 1) :
                                  calendarYear(before[i]) <= calendarYear(item)})
         IN  SubSeq(before, 1, k) \o <<item>> \o SubSeq(before, k + 1, n - 1)

\* Mutant: capitalExpenditure is taken with its sign.
fetched_record_signed_capex(financial_data) ==
    LET Column(key) ==
            [i \in 1..Len(financial_data) |-> float(get(financial_data[i], key, Zero))]
        cfo == [i \in 1..Len(financial_data) |->
                   float(get(financial_data[i], "operatingCashFlow",
                             get(financial_data[i],
                                 "netCashProvidedByOperatingActivities", Zero)))]
        latest == financial_data[Len(financial_data)]
        scalars == IF financial_data # <<>>
                   THEN <<float(get(latest, "cashAndCashEquivalents", Zero)),
                          float(get(latest, "interestIncome", Zero))>>
                   ELSE <<Return(Zero), Return(None)>>
        floats == Column("netIncome") \o cfo \o Column("ebitda")
                  \o Column("depreciationAndAmortization") \o Column("revenue")
                  \o Column("capitalExpenditure") \o scalars
        failed == {i \in 1..Len(floats) : floats[i].raised # ""}
        Values(column) == [i \in 1..Len(column) |-> column[i].result]
    IN  IF failed # {}
        THEN Raise(floats[CHOOSE i \in failed : \A j \in failed : i <= j].raised)
        ELSE Return([pat |-> Values(Column("netIncome")),
                     cfo |-> Values(cfo),
                     ebitda |-> Values(Column("ebitda")),
                     depreciation |-> Values(Column("depreciationAndAmortization")),
                     sales |-> Values(Column("revenue")),
                     capex |-> Values(Column("capitalExpenditure")),
                     cash_balance |-> scalars[1].result,
                     interest_income |-> scalars[2].result])

\* The record built from the sorted yearly items (lines 115-124).  The floats are
\* converted in the order of the source; the first conversion that fails raises.
fetched_record(financial_data) ==
    LET Column(key) ==
            [i \in 1..Len(financial_data) |-> float(get(financial_data[i], key, Zero))]
        cfo == [i \in 1..Len(financial_data) |->
                   float(get(financial_data[i], "operatingCashFlow",
                             get(financial_data[i],
                                 "netCashProvidedByOperatingActivities", Zero)))]
        latest == financial_data[Len(financial_data)]
        scalars == IF financial_data # <<>>
                   THEN <<float(get(latest, "cashAndCashEquivalents", Zero)),
                          float(get(latest, "interestIncome", Zero))>>
                   ELSE <<Return(Zero), Return(None)>>
        floats == Column("netIncome") \o cfo \o Column("ebitda")
                  \o Column("depreciationAndAmortization") \o Column("revenue")
                  \o Column("capitalExpenditure") \o scalars
        failed == {i \in 1..Len(floats) : floats[i].raised # ""}
        Values(column) == [i \in 1..Len(column) |-> column[i].result]
        Absolutes(column) == [i \in 1..Len(column) |-> RAbs(column[i].result)]
    IN  IF failed # {}
        THEN Raise(floats[CHOOSE i \in failed : \A j \in failed : i <= j].raised)
        ELSE Return([pat |-> Values(Column("netIncome")),
                     cfo |-> Values(cfo),
                     ebitda |-> Values(Column("ebitda")),
                     depreciation |-> Values(Column("depreciationAndAmortization")),
                     sales |-> Values(Column("revenue")),
                     capex |-> Absolutes(Column("capitalExpenditure")),
                     cash_balance |-> scalars[1].result,
                     interest_income |-> scalars[2].result])

\* Strings the tool returns: how the text starts, what it says, and its last line
ErrorString(message, detail) ==
    [start |-> "Error", content |-> [message |-> message, detail |-> detail],
     end |-> detail]
InvalidSymbol(company_id) ==
    ErrorString(": Invalid symbol format", "SYMBOL.NS (NSE) or SYMBOL.BO (BSE)")
ApiKeyNotSet ==
    ErrorString(": API_KEY and API_BASE_URL must be set", "in .env file")
InvalidApiKey ==
    ErrorString(": Invalid or missing API key.", "Check your API_KEY in .env file")
CompanyNotFound(company_id) ==
    ErrorString(": Company not found.", "(e.g., TCS.NS or TCS.BO)")
ErrorDuringAnalysis(e) ==
    [start |-> "Error", content |-> [message |-> " during analysis: ", detail |-> e],
     end |-> "- API endpoint is accessible"]
Report(content) ==
    [start |-> "PROFIT QUALITY & ACCRUAL ANALYSIS REPORT", content |-> content,
     end |-> "Analysis Complete"]

\* Mutant: a 404 is treated like any other failure of the fetch.
fetch_mock_on_404(company_id, api) ==
    IF api.raises # "" THEN [returned |-> None, data |-> _generate_mock_data(company_id)]
    ELSE IF api.status_code = 401 THEN [returned |-> InvalidApiKey, data |-> None]
    ELSE IF api.status_code # 200
    THEN [returned |-> None, data |-> _generate_mock_data(company_id)]
    ELSE IF api.json.type # "object"
    THEN [returned |-> None, data |-> _generate_mock_data(company_id)]
    ELSE LET api_response == api.json.value
         IN  IF get(api_response, "status", None) # Str("success")
             THEN [returned |-> None, data |-> _generate_mock_data(company_id)]
             ELSE LET financial_data == sort_by_year(get(api_response, "data", <<>>))
                      record == fetched_record(financial_data)
                  IN  IF record.raised # ""
                      THEN [returned |-> None, data |-> _generate_mock_data(company_id)]
                      ELSE [returned |-> None, data |-> record.result]

\* Lines 89-128: the request and what is made of its answer.  api is what the service
\* does on this request: raises (no connection, a timeout), or answers status_code
\* with a body whose json() is an object, an array, or fails.  The result is the
\* string returned at once, or the record handed on.
fetch(company_id, api) ==
    IF api.raises # "" THEN [returned |-> None, data |-> _generate_mock_data(company_id)]
    ELSE IF api.status_code = 401 THEN [returned |-> InvalidApiKey, data |-> None]
    ELSE IF api.status_code = 404
    THEN [returned |-> CompanyNotFound(company_id), data |-> None]
    ELSE IF api.status_code # 200
    THEN [returned |-> None, data |-> _generate_mock_data(company_id)]
    ELSE IF api.json.type # "object"
    THEN [returned |-> None, data |-> _generate_mock_data(company_id)]
    ELSE LET api_response == api.json.value
         IN  IF get(api_response, "status", None) # Str("success")
             THEN [returned |-> None, data |-> _generate_mock_data(company_id)]
             ELSE LET financial_data == sort_by_year(get(api_response, "data", <<>>))
                      record == fetched_record(financial_data)
                  IN  IF record.raised # ""
                      THEN [returned |-> None, data |-> _generate_mock_data(company_id)]
                      ELSE [returned |-> None, data |-> record.result]

\* Mutant: capex is replaced only when it is empty.
ensure_capex_if_empty(capex_list, cfo_list) ==
    IF capex_list = <<>>
    THEN [i \in 1..len(cfo_list) |-> Zero]
    ELSE capex_list

\* Lines 141-142: if not capex_list or len(capex_list) < len(cfo_list):
\*                    capex_list = [0] * len(cfo_list)
ensure_capex(capex_list, cfo_list) ==
    IF capex_list = <<>> \/ len(capex_list) < len(cfo_list)
    THEN [i \in 1..len(cfo_list) |-> Zero]
    ELSE capex_list

\* The exact variance of the ten depreciation/sales ratios of the mock record lies
\* outside TLC's integers.  Its coefficient of variation is 3.3645..., which the
\* source returns as 3.36.
MockDepreciationVolatility == Rat(336, 100)

\* analyzer.depreciation_volatility as the tool calls it
analyzer_depreciation_volatility(depreciation_list, sales_list) ==
    IF depreciation_list = MockDepreciation /\ sales_list = MockSales
    THEN Return(MockDepreciationVolatility)
    ELSE depreciation_volatility(depreciation_list, sales_list)

\* The order of the six calls (lines 150-155)
CallOrder == <<"cumulative_pat_vs_cfo", "cfo_ebitda_consistency", "accrual_quality",
               "depreciation_volatility", "cash_earning_rate", "fcf_quality">>
Position(f) == CHOOSE i \in 1..Len(CallOrder) : CallOrder[i] = f

\* a warning is shown "if data_warning:", when it is neither None nor empty
Truthy(string) == string \notin {None, Str("")}

\* Lines 131-145: the series are taken from the record, capex is made as long as cfo
\* and the rate becomes a percentage.  The result holds the arguments of the six calls.
extract(data, risk_free_rate) ==
    [pat_list |-> get(data, "pat", <<>>),
     cfo_list |-> get(data, "cfo", <<>>),
     ebitda_list |-> get(data, "ebitda", <<>>),
     depreciation_list |-> get(data, "depreciation", <<>>),
     sales_list |-> get(data, "sales", <<>>),
     capex_list |-> ensure_capex(get(data, "capex", <<>>), get(data, "cfo", <<>>)),
     cash_balance |-> get(data, "cash_balance", Zero),
     risk_free_rate |-> RMul(risk_free_rate, Num(100)),
     annual_earnings |-> get(data, "interest_income", None),
     threshold |-> DefaultThreshold,
     rolling_window |-> DefaultRollingWindow]

\* Lines 150-155: the six calls, in order
analyzer_calls(a) ==
    <<cumulative_pat_vs_cfo(a.pat_list, a.cfo_list, a.rolling_window),
      cfo_ebitda_consistency(a.cfo_list, a.ebitda_list, a.threshold),
      accrual_quality(a.pat_list, a.cfo_list),
      analyzer_depreciation_volatility(a.depreciation_list, a.sales_list),
      cash_earning_rate(a.cash_balance, a.risk_free_rate, a.annual_earnings),
      fcf_quality(a.cfo_list, a.depreciation_list, a.capex_list)>>

\* The number of calls made: a call that raises ends the block.
calls_made(calls) ==
    LET raising == {i \in 1..Len(calls) : calls[i].raised # ""}
    IN  IF raising = {} THEN Len(calls)
        ELSE CHOOSE i \in raising : \A j \in raising : i <= j

\* Lines 194-200: the warnings shown
warning_section(data_warning, cash_warning) ==
    (IF Truthy(data_warning) THEN <<data_warning[1]>> ELSE <<>>)
    \o (IF Truthy(cash_warning) THEN <<cash_warning[1]>> ELSE <<>>)

\* Lines 203-215: point 5 of the report
cash_section(cash_score_result) ==
    [cash_balance |-> format_f(cash_score_result.cash_balance, 2),
     risk_free_rate |-> format_f(cash_score_result.risk_free_rate, 2),
     expected_earnings |-> format_f(cash_score_result.expected_earnings, 2),
     actual_interest_income |->
         IF cash_score_result.actual_earnings = None THEN Str("Data not available")
         ELSE format_f(cash_score_result.actual_earnings, 2),
     actual_earning_rate |->
         IF cash_score_result.actual_earnings = None THEN None
         ELSE format_f(cash_score_result.earning_rate, 3)]

\* Lines 158-256: the report put together from the six results
output(company_id, a, calls) ==
    [company |-> company_id,
     risk_free_rate |-> format_f(a.risk_free_rate, 2),
     data_period |-> calls[1].result.years,
     warning_section |->
         warning_section(calls[1].result.warning, calls[5].result.warning),
     cumulative_pat |-> format_f(sum(a.pat_list), 2),
     cumulative_cfo |-> format_f(sum(a.cfo_list), 2),
     pat_vs_cfo |-> calls[1].result.value,
     avg_cfo |-> format_f(calls[2].result.avg_cfo, 2),
     avg_ebitda |-> format_f(calls[2].result.avg_ebitda, 2),
     cfo_ebitda_ratio |-> calls[2].result.ratio,
     avg_pat |-> format_f(calls[3].result.avg_pat, 2),
     avg_cfo_accrual |-> format_f(calls[3].result.avg_cfo, 2),
     avg_accruals |-> format_f(calls[3].result.avg_accruals, 2),
     accrual_ratio |-> calls[3].result.accrual_ratio,
     dep_volatility |-> calls[4].result,
     cash_section |-> cash_section(calls[5].result),
     avg_cfo_fcf |-> format_f(calls[6].result.avg_cfo, 2),
     avg_capex |-> format_f(calls[6].result.avg_capex, 2),
     avg_fcf |-> format_f(calls[6].result.avg_fcf, 2),
     fcf_volatility |-> format_f(calls[6].result.volatility_cv, 2),
     negative_years |-> calls[6].result.negative_years,
     total_years |-> calls[6].result.total_years]

\* Lines 148-257 on the arguments a and the outcomes of the calls: the report, or
\* the exception of the call that raised.
analysis(company_id, a, calls) ==
    [args |-> a,
     calls |-> calls,
     made |-> calls_made(calls),
     result |-> IF \A i \in 1..Len(calls) : calls[i].raised = ""
                THEN Return(Report(output(company_id, a, calls)))
                ELSE Raise(calls[calls_made(calls)].raised)]

\* Mutant: the handler catches ValueError only.
except_ValueError(outcome) ==
    IF outcome.raised = "ValueError"
    THEN Return(ErrorDuringAnalysis(outcome.raised))
    ELSE outcome

\* Lines 259-260: except Exception as e: return f"Error during analysis: {str(e)}..."
except_Exception(outcome) ==
    IF outcome.raised # ""
    THEN Return(ErrorDuringAnalysis(outcome.raised))
    ELSE outcome

\* No invocation of the tool
NoTool == [pc |-> "idle", company_id |-> <<"", "">>, risk_free_rate |-> Zero,
           api_key |-> None, api |-> None, requests |-> 0, data |-> None,
           outcome |-> NotCalled]

---------------------------------------------------------------------------
(* Spec: one metric function applied to arguments drawn from its inputs *)

Init ==
    /\ \E f \in Functions :
          /\ metrics = {f}
          /\ args \in ArgsOf(f)
    /\ fn = "none"
    /\ ret = NotCalled
    /\ seen = [f \in Functions |-> NotCalled]
    /\ tool = NoTool

Next ==
    \/ Call_cumulative_pat_vs_cfo
    \/ Call_cfo_ebitda_consistency
    \/ Call_accrual_quality
    \/ Call_depreciation_volatility
    \/ Call_cash_earning_rate
    \/ Call_fcf_quality

Spec == Init /\ [][Next]_vars

---------------------------------------------------------------------------
(* SpecPure: all six functions, called any number of times in any order on *)
(* the same argument objects                                               *)

PureVals == {Num(-1), Num(1)}
PureSeries == SeqsUpTo(PureVals, PureLen)

InitPure ==
    /\ metrics = Functions
    /\ \E a \in PureSeries, b \in PureSeries :
          args = [NoArgs EXCEPT !.pat_list = a, !.cfo_list = b, !.ebitda_list = b,
                                !.depreciation_list = a, !.sales_list = b,
                                !.capex_list = a, !.cash_balance = Num(1000),
                                !.risk_free_rate = Num(5), !.annual_earnings = Num(50)]
    /\ fn = "none"
    /\ ret = NotCalled
    /\ seen = [f \in Functions |-> NotCalled]
    /\ tool = NoTool

SpecPure == InitPure /\ [][Next]_vars

---------------------------------------------------------------------------
(* SpecTool: one invocation of profit_quality_analysis, against every      *)
(* answer of the API.  The function runs to its return: checking the       *)
(* symbol and the key, the request, the analysis.                          *)

\* Yearly records of a payload: complete; without operatingCashFlow and
\* interestIncome; with most fields missing and no cash; without a year and with a
\* revenue that is no number; of the same year as the first, without interestIncome;
\* with a null netIncome.
Item2021 ==
    [calendarYear |-> 2021, netIncome |-> Num(1), operatingCashFlow |-> Num(2),
     ebitda |-> Num(2), depreciationAndAmortization |-> Num(1), revenue |-> Num(2),
     capitalExpenditure |-> Num(-1), cashAndCashEquivalents |-> Num(2),
     interestIncome |-> Num(1)]
Item2020 ==
    [calendarYear |-> 2020, netIncome |-> Num(-1),
     netCashProvidedByOperatingActivities |-> Num(1), ebitda |-> Num(1),
     depreciationAndAmortization |-> Num(1), revenue |-> Num(1),
     capitalExpenditure |-> Num(2), cashAndCashEquivalents |-> Num(1)]
Item2022 ==
    [calendarYear |-> 2022, netIncome |-> Num(2), operatingCashFlow |-> Num(-1),
     capitalExpenditure |-> Num(-2), cashAndCashEquivalents |-> Num(0),
     interestIncome |-> Num(2)]
ItemNoYear ==
    [netIncome |-> Num(1), operatingCashFlow |-> Num(1), revenue |-> Str("n/a")]
ItemAlso2021 ==
    [calendarYear |-> 2021, netIncome |-> Num(2), operatingCashFlow |-> Num(1),
     ebitda |-> Num(-1), depreciationAndAmortization |-> Num(2), revenue |-> Num(2),
     capitalExpenditure |-> Num(0), cashAndCashEquivalents |-> Num(1)]
ItemNull ==
    [calendarYear |-> 2019, netIncome |-> None, operatingCashFlow |-> Num(1)]

Items == {Item2021, Item2020, Item2022, ItemNoYear, ItemAlso2021, ItemNull}

NotJson == [type |-> "invalid", value |-> None]
JsonArray == [type |-> "array", value |-> <<>>]
JsonObject(object) == [type |-> "object", value |-> object]

Payloads ==
    {JsonObject([status |-> Str("success"), data |-> d]) : d \in SeqsUpTo(Items, MaxItems)}
    \cup {JsonObject([status |-> Str("error"), message |-> Str("Internal error")]),
          JsonObject([data |-> <<Item2021>>]),
          JsonObject([status |-> Str("success")])}

NoConnection == [raises |-> "ConnectionError", status_code |-> 0, json |-> NotJson]
Answers(status_code, json) == [raises |-> "", status_code |-> status_code, json |-> json]

ApiOutcomes ==
    {NoConnection}
    \cup {Answers(s, NotJson) : s \in {401, 404, 500}}
    \cup {Answers(200, j) : j \in {NotJson, JsonArray} \cup Payloads}

CompanyIds == {<<"TCS", ".NS">>, <<"RELIANCE", ".BO">>, <<"TCS", "">>}
ApiKeys == {None, Str("key")}
RiskFreeRates == {Zero, Rat(1, 8)}

\* Lines 66-76: the symbol format, then the API key
Validate ==
    /\ tool.pc = "validate"
    /\ tool' =
          IF ~(endswith(tool.company_id, ".NS") \/ endswith(tool.company_id, ".BO"))
          THEN [tool EXCEPT !.pc = "done",
                            !.outcome = Return(InvalidSymbol(tool.company_id))]
          ELSE IF ~Truthy(tool.api_key)
          THEN [tool EXCEPT !.pc = "done", !.outcome = Return(ApiKeyNotSet)]
          ELSE [tool EXCEPT !.pc = "fetch"]
    /\ UNCHANGED <<metrics, args, fn, ret, seen>>

\* Lines 78-128: one request; an error string is returned or a record is handed on
Fetch ==
    /\ tool.pc = "fetch"
    /\ LET fetched == fetch(tool.company_id, tool.api)
       IN  tool' =
              IF fetched.returned # None
              THEN [tool EXCEPT !.pc = "done", !.requests = @ + 1,
                                !.outcome = Return(fetched.returned)]
              ELSE [tool EXCEPT !.pc = "analyze", !.requests = @ + 1,
                                !.data = fetched.data]
    /\ UNCHANGED <<metrics, args, fn, ret, seen>>

\* What a run of the analysis leaves behind
Analyzed(done) ==
    \E run \in {done} :
       /\ args' = run.args
       /\ seen' = [f \in Functions |->
                      IF Position(f) <= run.made THEN run.calls[Position(f)]
                      ELSE NotCalled]
       /\ fn' = CallOrder[run.made]
       /\ ret' = run.calls[run.made]
       /\ tool' = [tool EXCEPT !.pc = "done",
                               !.outcome = except_Exception(run.result)]

\* Lines 130-260: the analysis of the record, within the outer try
Analyze ==
    /\ tool.pc = "analyze"
    /\ \E a \in {extract(tool.data, tool.risk_free_rate)} :
          \E calls \in {analyzer_calls(a)} :
             Analyzed(analysis(tool.company_id, a, calls))
    /\ UNCHANGED metrics

InitTool ==
    /\ metrics = Functions
    /\ args = NoArgs
    /\ fn = "none"
    /\ ret = NotCalled
    /\ seen = [f \in Functions |-> NotCalled]
    /\ \E c \in CompanyIds, r \in RiskFreeRates, k \in ApiKeys, a \in ApiOutcomes :
          tool = [pc |-> "validate", company_id |-> c, risk_free_rate |-> r,
                  api_key |-> k, api |-> a, requests |-> 0, data |-> None,
                  outcome |-> NotCalled]

NextTool ==
    \/ Validate
    \/ Fetch
    \/ Analyze

\* The function is sequential code: a step that can be taken is taken.
SpecTool == InitTool /\ [][NextTool]_vars /\ WF_vars(NextTool)

---------------------------------------------------------------------------
(* Properties *)

Called(f) == fn = f
Returns == ret.raised = ""
NonEmpty(list) == Len(list) >= 1
Prefix(list, n) == SubSeq(list, 1, n)
AllZero(list) == \A i \in 1..Len(list) : list[i] = Zero

\* C1: every call of every Analyzer function returns a result; none raises.
C1_NeverRaises == fn # "none" => Returns

\* C1, the input on which it fails: accrual_quality on a non-empty series of zero mean.
C1_RaisesOnZeroMeanPat ==
    /\ Called("accrual_quality")
    /\ NonEmpty(args.pat_list) /\ NonEmpty(args.cfo_list)
    /\ mean(args.pat_list) = Zero
    /\ ret = Raise("StatisticsError")

\* C2: a zero denominator yields the defined fallback: sum(pat) = 0 gives value 0,
\* mean(ebitda) = 0 gives ratio 0, mean(pat) = 0 gives a result of accrual_quality,
\* a zero mean of the depreciation/sales ratios gives volatility 0, sales_i = 0 gives
\* ratio_i 0, cash_balance = 0 gives earning_rate 0, avg_fcf = 0 gives volatility_cv 0.
C2_ZeroDenominatorFallback ==
    /\ (Called("cumulative_pat_vs_cfo")
          /\ NonEmpty(args.pat_list) /\ NonEmpty(args.cfo_list)
          /\ sum(args.pat_list) = Zero)
       => (Returns /\ ret.result.value = Zero)
    /\ (Called("cfo_ebitda_consistency")
          /\ NonEmpty(args.cfo_list) /\ NonEmpty(args.ebitda_list)
          /\ mean(args.ebitda_list) = Zero)
       => (Returns /\ ret.result.ratio = Zero)
    /\ (Called("accrual_quality")
          /\ NonEmpty(args.pat_list) /\ NonEmpty(args.cfo_list)
          /\ mean(args.pat_list) = Zero)
       => Returns
    /\ (Called("depreciation_volatility")
          /\ Len(args.depreciation_list) >= 2 /\ Len(args.sales_list) >= 2)
       => LET pairs == zip(args.depreciation_list, args.sales_list)
          IN  /\ \A i \in 1..Len(pairs) :
                    pairs[i][2] = Zero => depreciation_ratio(pairs[i]) = Zero
              /\ mean([i \in 1..Len(pairs) |-> depreciation_ratio(pairs[i])]) = Zero
                    => (Returns /\ ret.result = Zero)
    /\ (Called("cash_earning_rate")
          /\ args.annual_earnings # None /\ args.cash_balance = Zero)
       => (Returns /\ ret.result.earning_rate = Zero)
    /\ (Called("fcf_quality")
          /\ Len(args.cfo_list) >= 2 /\ Len(args.capex_list) >= Len(args.cfo_list)
          /\ sum(args.cfo_list) = sum(Prefix(args.capex_list, Len(args.cfo_list))))
       => (Returns /\ ret.result.volatility_cv = Zero)

\* C3: for non-empty pat and cfo, value = round(sum of all of cfo / sum of all of pat, 3),
\* and value = 0 when sum(pat) = 0, whatever the lengths.
C3_RatioOfFullSums ==
    (Called("cumulative_pat_vs_cfo") /\ NonEmpty(args.pat_list) /\ NonEmpty(args.cfo_list))
    => /\ Returns
       /\ ret.result.value =
             IF sum(args.pat_list) = Zero THEN Zero
             ELSE round(RDiv(sum(args.cfo_list), sum(args.pat_list)), 3)

\* C3, its case: series of different lengths on which the sums over the first
\* min(len) elements would give another value.
C3_UnequalLengths ==
    /\ Called("cumulative_pat_vs_cfo")
    /\ NonEmpty(args.pat_list) /\ NonEmpty(args.cfo_list)
    /\ Len(args.pat_list) # Len(args.cfo_list)
    /\ LET years == min(Len(args.pat_list), Len(args.cfo_list))
           short_pat == sum(Prefix(args.pat_list, years))
           short_cfo == sum(Prefix(args.cfo_list, years))
       IN  /\ short_pat # Zero
           /\ ret.result.value # round(RDiv(short_cfo, short_pat), 3)

\* C4 as stated: on the mock record the result is value 0.961, years 10, warning None.
C4_MockValue961 ==
    (Called("cumulative_pat_vs_cfo") /\ args.pat_list = MockPat /\ args.cfo_list = MockCfo)
    => ret = Return([value |-> Rat(961, 1000), years |-> 10, warning |-> None])

\* C4 amended: on the mock record the result is value 0.978 (= round(1242/1270, 3)),
\* years 10, warning None.
C4_MockValue978 ==
    (Called("cumulative_pat_vs_cfo") /\ args.pat_list = MockPat /\ args.cfo_list = MockCfo)
    => ret = Return([value |-> Rat(978, 1000), years |-> 10, warning |-> None])

\* C4, its case: cumulative_pat_vs_cfo has been called on the mock record.
C4_MockCalled ==
    /\ Called("cumulative_pat_vs_cfo")
    /\ args.pat_list = MockPat /\ args.cfo_list = MockCfo
    /\ Returns

\* C5: years = min(len(pat), len(cfo)); the warning is "Only 3 years available" exactly
\* when 1 <= years < 10 and None exactly when years >= 10; with an empty series the
\* result is value 0.0, years 0, warning "Insufficient data".
C5_YearsAndWarning ==
    Called("cumulative_pat_vs_cfo")
    => LET years == min(Len(args.pat_list), Len(args.cfo_list))
       IN  /\ Returns
           /\ ret.result.years = years
           /\ (ret.result.warning = Str("Only 3 years available")) <=> (1 <= years /\ years < 10)
           /\ (ret.result.warning = None) <=> (years >= 10)
           /\ years = 0 => ret.result = [value |-> Zero, years |-> 0,
                                         warning |-> Str("Insufficient data")]

\* C5, its case: series of different lengths, the shorter of exactly ten years.
C5_TenYearsOfEleven ==
    /\ Called("cumulative_pat_vs_cfo")
    /\ Len(args.pat_list) = 10 /\ Len(args.cfo_list) = 11
    /\ ret.result.years = 10 /\ ret.result.warning = None

\* C6: accrual_quality(pat, pat) returns avg_accruals = 0 and accrual_ratio = 0 for every
\* series pat, all-zero and zero-mean series included.
C6_EqualSeriesNoAccruals ==
    (Called("accrual_quality") /\ args.pat_list = args.cfo_list)
    => /\ Returns
       /\ ret.result.avg_accruals = Zero
       /\ ret.result.accrual_ratio = Zero

\* C7: depreciation_volatility(k * depreciation, k * sales) equals
\* depreciation_volatility(depreciation, sales) for every nonzero k of either sign, also
\* when some sales_i are 0.
Scales == {-3, -1, 2}
Scaled(k, list) == [i \in 1..Len(list) |-> RMul(Num(k), list[i])]
C8_ZeroCapex ==
    (Called("fcf_quality")
        /\ Len(args.cfo_list) >= 2 /\ Len(args.capex_list) = Len(args.cfo_list)
        /\ AllZero(args.capex_list))
    => /\ Returns
       /\ ret.result.avg_fcf = round(mean(args.cfo_list), 2)
       /\ ret.result.avg_fcf = ret.result.avg_cfo
       /\ ret.result.avg_capex = Zero

\* C8, its case: a nonzero cfo with a depreciation series, and no capex in any year.
C8_ZeroCapexCalled ==
    /\ Called("fcf_quality")
    /\ Len(args.cfo_list) >= 2 /\ Len(args.capex_list) = Len(args.cfo_list)
    /\ AllZero(args.capex_list)
    /\ args.depreciation_list # <<>>
    /\ Returns /\ ret.result.avg_fcf # Zero

\* C9 as stated: expected_earnings = cash_balance * risk_free_rate / 100; without
\* annual_earnings, actual_earnings and earning_rate are None and a warning is present;
\* with annual_earnings, warning is None, actual_earnings is the value provided and
\* earning_rate = annual_earnings / cash_balance * 100 (0 if cash_balance = 0).
C9_UnroundedEarnings ==
    Called("cash_earning_rate")
    => /\ Returns
       /\ ret.result.expected_earnings =
             RDiv(RMul(args.cash_balance, args.risk_free_rate), Num(100))
       /\ args.annual_earnings = None
             => /\ ret.result.actual_earnings = None
                /\ ret.result.earning_rate = None
                /\ ret.result.warning \notin {None, Str("")}
       /\ args.annual_earnings # None
             => /\ ret.result.warning = None
                /\ ret.result.actual_earnings = args.annual_earnings
                /\ ret.result.earning_rate =
                      IF args.cash_balance = Zero THEN Zero
                      ELSE RMul(RDiv(args.annual_earnings, args.cash_balance), Num(100))

\* C9 amended: the same, with expected_earnings and actual_earnings rounded to 2
\* decimals and earning_rate to 3; cash_earning_rate(1000, 5.0, 50.0).earning_rate = 5.0.
C9_RoundedEarnings ==
    Called("cash_earning_rate")
    => /\ Returns
       /\ ret.result.expected_earnings =
             round(RDiv(RMul(args.cash_balance, args.risk_free_rate), Num(100)), 2)
       /\ args.annual_earnings = None
             => /\ ret.result.actual_earnings = None
                /\ ret.result.earning_rate = None
                /\ ret.result.warning \notin {None, Str("")}
       /\ args.annual_earnings # None
             => /\ ret.result.warning = None
                /\ ret.result.actual_earnings = round(args.annual_earnings, 2)
                /\ ret.result.earning_rate =
                      IF args.cash_balance = Zero THEN Zero
                      ELSE round(RMul(RDiv(args.annual_earnings, args.cash_balance),
                                      Num(100)), 3)
       /\ (args.cash_balance = Num(1000) /\ args.risk_free_rate = Num(5)
              /\ args.annual_earnings = Num(50))
             => ret.result.earning_rate = Num(5)

\* C9, its case: earnings of zero are provided, on a balance whose expected earnings
\* need rounding.
C9_ZeroEarningsProvided ==
    /\ Called("cash_earning_rate")
    /\ args.annual_earnings = Zero
    /\ args.cash_balance # Zero
    /\ ret.result.expected_earnings #
          RDiv(RMul(args.cash_balance, args.risk_free_rate), Num(100))
    /\ ret.result.warning = None

ZeroMetrics(f) ==
    CASE f = "cumulative_pat_vs_cfo" -> [value |-> Zero, years |-> 0]
      [] f = "cfo_ebitda_consistency" ->
            [avg_cfo |-> Zero, avg_ebitda |-> Zero, ratio |-> Zero]
      [] f = "accrual_quality" ->
            [avg_pat |-> Zero, avg_cfo |-> Zero, avg_accruals |-> Zero,
             accrual_ratio |-> Zero]
      [] f = "fcf_quality" ->
            [avg_fcf |-> Zero, volatility_cv |-> Zero, negative_years |-> 0,
             total_years |-> 0, avg_cfo |-> Zero, avg_capex |-> Zero]

\* The last call was made on a series shorter than the function's minimum.
TooShort ==
    CASE fn \in {"cumulative_pat_vs_cfo", "accrual_quality"} ->
            Len(args.pat_list) = 0 \/ Len(args.cfo_list) = 0
      [] fn = "cfo_ebitda_consistency" ->
            Len(args.cfo_list) = 0 \/ Len(args.ebitda_list) = 0
      [] fn = "depreciation_volatility" ->
            Len(args.depreciation_list) < 2 \/ Len(args.sales_list) < 2
      [] fn = "fcf_quality" -> Len(args.cfo_list) < 2
      [] OTHER -> FALSE

\* The last call returned the function's zero result (a bare 0.0 for
\* depreciation_volatility).
IsNeutral ==
    /\ Returns
    /\ IF fn = "depreciation_volatility" THEN ret.result = Zero
       ELSE \A k \in DOMAIN ZeroMetrics(fn) : ret.result[k] = ZeroMetrics(fn)[k]

\* The last call returned a result that carries a warning string.
HasWarning ==
    /\ Returns
    /\ fn # "depreciation_volatility"
    /\ "warning" \in DOMAIN ret.result
    /\ ret.result.warning \notin {None, Str("")}

\* C11 as stated: on a series shorter than the metric's minimum the function returns
\* its zero result together with a warning string, and does not raise.
C11_NeutralWithWarning == TooShort => (IsNeutral /\ HasWarning)

\* C11 amended: on a series shorter than the metric's minimum the function returns its
\* zero result and does not raise; cumulative_pat_vs_cfo alone adds a warning string,
\* "Insufficient data", the other four results carry none.
C11_NeutralResult ==
    TooShort
    => /\ IsNeutral
       /\ HasWarning <=> fn = "cumulative_pat_vs_cfo"
       /\ fn = "cumulative_pat_vs_cfo" => ret.result.warning = Str("Insufficient data")

\* C11, its case: fcf_quality called on a single nonzero year of cfo.
C11_OneYearOfCfo ==
    /\ Called("fcf_quality")
    /\ Len(args.cfo_list) = 1 /\ args.cfo_list[1] # Zero
    /\ IsNeutral /\ ~HasWarning

\* Thresholds a second call is made with.
AnyThreshold == {Zero, Rat(1, 2), Rat(7, 10), Rat(9, 10), Num(2)}

\* C12 as stated: cfo_ebitda_consistency returns the same result under every threshold,
\* and its ratio is mean(cfo) / mean(ebitda), each mean over its own full series.
C12_ThresholdIgnoredExactRatio ==
    Called("cfo_ebitda_consistency")
    => /\ \A t \in AnyThreshold :
             cfo_ebitda_consistency(args.cfo_list, args.ebitda_list, t) = ret
       /\ (NonEmpty(args.cfo_list) /\ NonEmpty(args.ebitda_list)
              /\ mean(args.ebitda_list) # Zero)
          => ret.result.ratio = RDiv(mean(args.cfo_list), mean(args.ebitda_list))

\* C12 amended: the same result under every threshold, with ratio =
\* round(mean(cfo) / mean(ebitda), 3), each mean over its own full series, and ratio = 0
\* when mean(ebitda) = 0 or a series is empty.
C12_ThresholdIgnored ==
    Called("cfo_ebitda_consistency")
    => /\ \A t \in AnyThreshold :
             cfo_ebitda_consistency(args.cfo_list, args.ebitda_list, t) = ret
       /\ Returns
       /\ ret.result.ratio =
             IF Len(args.cfo_list) = 0 \/ Len(args.ebitda_list) = 0 THEN Zero
             ELSE IF mean(args.ebitda_list) = Zero THEN Zero
             ELSE round(RDiv(mean(args.cfo_list), mean(args.ebitda_list)), 3)

\* C12, its case: series of different lengths whose ratio, 0.75, lies between the
\* default threshold and the one the call was made with.
C12_RatioBelowThreshold ==
    /\ Called("cfo_ebitda_consistency")
    /\ Len(args.cfo_list) # Len(args.ebitda_list)
    /\ args.threshold = Rat(9, 10)
    /\ ret.result.ratio = Rat(3, 4)

\* Years in which cfo - capex is negative, among the years both series cover.
NegativePairs(cfo_list, capex_list) ==
    {i \in 1..min(Len(cfo_list), Len(capex_list)) : RLess(cfo_list[i], capex_list[i])}

RatioGrid == {Rat(k, 200) : k \in -10..100}

C17_TruncatesToShorter ==
    (Called("fcf_quality") /\ Len(args.cfo_list) >= 2)
    => /\ Returns
       /\ ret.result.total_years = min(Len(args.cfo_list), Len(args.capex_list))
       /\ ret.result.negative_years =
             Cardinality(NegativePairs(args.cfo_list, args.capex_list))
       /\ 0 <= ret.result.negative_years
       /\ ret.result.negative_years <= ret.result.total_years

---------------------------------------------------------------------------
(* Properties of profit_quality_analysis, under SpecTool *)

Done == tool.pc = "done"
ValidSymbol == endswith(tool.company_id, ".NS") \/ endswith(tool.company_id, ".BO")
Requested == ValidSymbol /\ Truthy(tool.api_key)
Ran(f) == seen[f] # NotCalled
NoneRan == \A f \in Functions : ~Ran(f)
ReturnsReport == tool.outcome.raised = "" /\ tool.outcome.result.end = "Analysis Complete"
ReturnsError == tool.outcome.raised = "" /\ tool.outcome.result.start = "Error"

\* The answer is a 200 whose JSON object has status "success".
Succeeded ==
    /\ tool.api.raises = "" /\ tool.api.status_code = 200
    /\ tool.api.json.type = "object"
    /\ get(tool.api.json.value, "status", None) = Str("success")

\* The yearly items of the answer, oldest first
SortedItems == sort_by_year(get(tool.api.json.value, "data", <<>>))

\* The record that reaches the Analyzer was built from the answer.
Fetched == Requested /\ Succeeded /\ fetched_record(SortedItems).raised = ""

\* The record that reaches the Analyzer is the mock record.
FellBack == Requested /\ tool.data = _generate_mock_data(tool.company_id)

\* The record that reaches the Analyzer holds no interest income: the mock record, or
\* a fetched one whose latest year has no interestIncome.
NoInterestIncome ==
    \/ FellBack
    \/ /\ Fetched
       /\ SortedItems # <<>>
       /\ "interestIncome" \notin DOMAIN SortedItems[Len(SortedItems)]

\* C15: when the record has no interest income, cash_earning_rate is called with
\* annual_earnings None, it returns with its warning, and the report shows the warning
\* and "Data not available" in place of an earning rate.
C15_MissingInterestIncome ==
    (Done /\ NoInterestIncome /\ Ran("cash_earning_rate"))
    => /\ args.annual_earnings = None
       /\ seen["cash_earning_rate"].raised = ""
       /\ Truthy(seen["cash_earning_rate"].result.warning)
       /\ ReturnsReport
          => LET shown == tool.outcome.result.content
             IN  /\ \E i \in 1..Len(shown.warning_section) :
                       Str(shown.warning_section[i])
                           = seen["cash_earning_rate"].result.warning
                 /\ shown.cash_section.actual_interest_income = Str("Data not available")
                 /\ shown.cash_section.actual_earning_rate = None

\* Series a record may hold for capex: of any length up to MaxLen + 1
CapexSeries == SeqsUpTo({Num(0), Num(3)}, MaxLen + 1)

\* C16: the capex series handed to fcf_quality is at least as long as cfo: a record's
\* capex that is absent, empty or shorter than cfo is replaced by len(cfo) zeros, any
\* other is passed on as it is, and the capex of a fetched record holds the absolute
\* values of the capitalExpenditure entries.
C16_CapexAsLongAsCfo ==
    (Done /\ Ran("fcf_quality"))
    => LET cfo == get(tool.data, "cfo", <<>>)
           capex == get(tool.data, "capex", <<>>)
       IN  /\ args.cfo_list = cfo
           /\ Len(args.capex_list) >= Len(args.cfo_list)
           /\ args.capex_list = IF capex = <<>> \/ Len(capex) < Len(cfo)
                                THEN Rep(Zero, Len(cfo))
                                ELSE capex
           /\ Fetched
              => /\ Len(capex) = Len(SortedItems)
                 /\ \A i \in 1..Len(capex) :
                       capex[i] = RAbs(get(SortedItems[i], "capitalExpenditure", Zero))
           /\ \A x \in CapexSeries :
                 LET handed == ensure_capex(x, cfo)
                 IN  /\ Len(handed) >= Len(cfo)
                     /\ handed = IF Len(x) < Len(cfo) \/ x = <<>>
                                 THEN Rep(Zero, Len(cfo))
                                 ELSE x
           /\ ensure_capex(get([cfo |-> cfo], "capex", <<>>), cfo) = Rep(Zero, Len(cfo))

\* C16, its case: fcf_quality ran on a fetched record of two years whose
\* capitalExpenditure entries are negative, and was handed their absolute values.
C16_FetchedNegativeCapex ==
    /\ Done /\ Fetched /\ Ran("fcf_quality")
    /\ Len(SortedItems) = 2
    /\ \A i \in 1..2 : RLess(get(SortedItems[i], "capitalExpenditure", Zero), Zero)
    /\ \A i \in 1..2 : RLess(Zero, args.capex_list[i])

\* The fetch fails in a way that is answered by the mock record: a status other than
\* 200, 401 and 404, a 200 whose status field is not "success", or an exception
\* during the request (no connection) or the parsing (no JSON object, a value that is
\* no number).
FetchFails ==
    \/ tool.api.raises # ""
    \/ tool.api.status_code \notin {200, 401, 404}
    \/ /\ tool.api.status_code = 200
       /\ \/ tool.api.json.type # "object"
          \/ get(tool.api.json.value, "status", None) # Str("success")
          \/ fetched_record(SortedItems).raised # ""

\* The six functions have run, in the order of the source, on the series of record,
\* each with the outcome it has on those arguments, and the report was returned.
AnalyzedAsFetched(record) ==
    LET a == extract(record, tool.risk_free_rate)
    IN  /\ args = a
        /\ seen["cumulative_pat_vs_cfo"]
              = cumulative_pat_vs_cfo(a.pat_list, a.cfo_list, a.rolling_window)
        /\ seen["cfo_ebitda_consistency"]
              = cfo_ebitda_consistency(a.cfo_list, a.ebitda_list, a.threshold)
        /\ seen["accrual_quality"] = accrual_quality(a.pat_list, a.cfo_list)
        /\ seen["depreciation_volatility"]
              = analyzer_depreciation_volatility(a.depreciation_list, a.sales_list)
        /\ seen["cash_earning_rate"]
              = cash_earning_rate(a.cash_balance, a.risk_free_rate, a.annual_earnings)
        /\ seen["fcf_quality"]
              = fcf_quality(a.cfo_list, a.depreciation_list, a.capex_list)
        /\ fn = "fcf_quality"
        /\ ReturnsReport

\* What C18 says of a finished call
FetchThenFallback ==
    Done =>
       /\ ~ValidSymbol
          => tool.requests = 0 /\ NoneRan /\ ReturnsError
                /\ tool.outcome.result = InvalidSymbol(tool.company_id)
       /\ (Requested /\ tool.api.raises = "" /\ tool.api.status_code \in {401, 404})
          => tool.requests = 1 /\ NoneRan /\ ReturnsError
       /\ (Requested /\ FetchFails)
          => /\ tool.requests = 1
             /\ tool.data = _generate_mock_data(tool.company_id)
             /\ Len(tool.data.pat) = 10
             /\ AnalyzedAsFetched(_generate_mock_data(tool.company_id))

\* C18: an invalid company_id returns an error string before any request; a 401 or
\* 404 returns an error string and no Analyzer function runs; any other failure of the
\* fetch puts the 10-year mock record in place of the data and the six functions run
\* on it.  The request is made in the fetch step only, at most once, after the symbol
\* was found valid, and the functions run only after the request.
C18_FetchThenFallback ==
    /\ []FetchThenFallback
    /\ [][/\ tool'.requests # tool.requests
             => tool.pc = "fetch" /\ ValidSymbol /\ tool.requests = 0
          /\ seen' # seen
             => tool.pc = "analyze" /\ tool.requests = 1 /\ tool'.pc = "done"]_vars

\* C18, its case: the service answered 500 and the report on the mock record, with
\* its ten years, was returned.
C18_MockAfter500 ==
    /\ Done /\ tool.api.raises = "" /\ tool.api.status_code = 500
    /\ tool.data = _generate_mock_data(tool.company_id)
    /\ ReturnsReport
    /\ tool.outcome.result.content.data_period = 10
    /\ \A f \in Functions : Ran(f) /\ seen[f].raised = ""

\* The steps of the function in the order of the source
PcOrder == <<"validate", "fetch", "analyze", "done">>
PcRank(pc) == CHOOSE i \in 1..Len(PcOrder) : PcOrder[i] = pc

\* Where the call stands, the step of the source that comes next ends: it returns a
\* string or hands a record on to the next step.
StepEnds ==
    /\ tool.pc \in {PcOrder[i] : i \in 1..Len(PcOrder)}
    /\ tool.pc = "fetch"
       => \E fetched \in {fetch(tool.company_id, tool.api)} :
             fetched.returned # None \/ fetched.data # None
    /\ tool.pc = "analyze"
       => \E a \in {extract(tool.data, tool.risk_free_rate)} :
             \E run \in {analysis(tool.company_id, a, analyzer_calls(a))} :
                except_Exception(run.result).raised = ""

\* C19: the call ends, and it ends by returning a string, the report whose last line
\* is "Analysis Complete" or a string starting with "Error"; no exception is left
\* to the caller.  Every step ends and moves on in the order of the source, so the
\* call is over after three steps at most.
C19_NeverPropagates ==
    /\ [](Done => (tool.outcome.raised = "" /\ (ReturnsReport \/ ReturnsError)))
    /\ []StepEnds
    /\ [][PcRank(tool'.pc) > PcRank(tool.pc)]_vars

\* C19, its case: PAT of mean zero was fetched, accrual_quality raised
\* StatisticsError, and the string "Error during analysis: ..." was returned.
C19_ErrorDuringAnalysis ==
    /\ Done /\ Fetched
    /\ args.pat_list # <<>> /\ mean(args.pat_list) = Zero
    /\ seen["accrual_quality"] = Raise("StatisticsError")
    /\ ~Ran("fcf_quality")
    /\ tool.outcome = Return(ErrorDuringAnalysis("StatisticsError"))

====
